---- MODULE Spec2Model ----
(***************************************************************************)
(* Session controller of systemd-tui-monitor: App::run (src/src/app.rs)    *)
(* with the service directory (src/src/app/systemd.rs) and the terminal    *)
(* as its environment.                                                     *)
(*                                                                         *)
(* Time is counted in seconds on the monotonic clock behind Instant::now.  *)
(* The 100 ms input slice (tick_rate, last_tick) only bounds how long      *)
(* event::poll may block; every blocking call lets an arbitrary amount of  *)
(* time pass, which the Tick action models, so last_tick is not a variable.*)
(* The status strings of a Service are never read by the controller and    *)
(* are left out of the Service record.                                     *)
(***************************************************************************)
EXTENDS Integers, Sequences, FiniteSets, TLC

\* ---------------------------------------------------------------- bounds
MaxServices == 2
MaxLogLen == 2
MaxHeight == 5
MaxClock == 4

\* ------------------------------------------------------ program constants
\* Duration::from_secs(2)
data_tick_rate == 2
\* u16 arithmetic of log_scroll
U16 == 65536

\* ListState::selected() == None
None == -1

Names == 1..MaxServices
Heights == 4..MaxHeight
Instants == 0..MaxClock

\* ------------------------------------------------------------ pure parts
Min(a, b) == IF a < b THEN a ELSE b

\* usize / u16 saturating_sub
saturating_sub(a, b) == IF a >= b THEN a - b ELSE 0

Service(n, u) == [name |-> n, is_user_config |-> u]

\* get_user_services: one entry per unit name, sorted by name; whether a
\* unit is user configuration is read from the file system on every call.
RECURSIVE SortedServices(_, _, _)
SortedServices(present, user, n) ==
    IF n > MaxServices THEN <<>>
    ELSE (IF n \in present THEN <<Service(n, n \in user)>> ELSE <<>>)
         \o SortedServices(present, user, n + 1)

ServiceLists ==
    UNION {{SortedServices(p, u, 1) : u \in SUBSET p} : p \in SUBSET Names}

\* get_service_logs: the last lines of one unit's journal
LogLines(name, n) == [i \in 1..n |-> name]

\* the filter predicate negated
ViewFilterInverted(svcs, show_only) ==
    IF show_only THEN SelectSeq(svcs, LAMBDA s : ~s.is_user_config) ELSE svcs

get_current_view_services(svcs, show_only) ==
    IF show_only THEN SelectSeq(svcs, LAMBDA s : s.is_user_config) ELSE svcs

\* slice.get(index) on a 0-based index
HasIndex(seq, index) == index /= None /\ index < Len(seq)

\* the cursor correction at the end of refresh_services
CorrectCursor(sel, current_len) ==
    IF sel = None THEN None
    ELSE IF current_len = 0 THEN None
    ELSE IF sel >= current_len THEN saturating_sub(current_len, 1)
    ELSE sel

\* next that stops at the last index instead of wrapping
NextNoWrap(sel, len) ==
    IF len = 0 THEN sel
    ELSE IF sel = None THEN 0
    ELSE IF sel >= saturating_sub(len, 1) THEN sel ELSE sel + 1

\* App::next / App::previous on a view of length len
next(sel, len) ==
    IF len = 0 THEN sel
    ELSE IF sel = None THEN 0
    ELSE IF sel >= saturating_sub(len, 1) THEN 0 ELSE sel + 1

previous(sel, len) ==
    IF len = 0 THEN sel
    ELSE IF sel = None THEN 0
    ELSE IF sel = 0 THEN saturating_sub(len, 1) ELSE sel - 1

\* Instant::checked_sub: None when the result is before the clock's origin
checked_sub(t, d) == IF t >= d THEN t - d ELSE None

\* App::force_next_refresh: the new last_data_tick
force_next_refresh(t) ==
    IF checked_sub(t, data_tick_rate * 2) /= None
    THEN checked_sub(t, data_tick_rate * 2)
    ELSE t

\* a cadence of one second instead of two
RefreshDueEarly(t, last) == t - last >= 1

\* last_data_tick.elapsed() >= data_tick_rate
RefreshDue(t, last) == t - last >= data_tick_rate

\* (terminal_size.height * 80 / 100).saturating_sub(2), in u16
popup_height(height) == saturating_sub(((height * 80) % U16) \div 100, 2)

\* the popup's two border rows forgotten
BottomScrollNoBorders(len, height) == saturating_sub(len % U16, (height * 80) \div 100)

\* log_scroll while sticking to the bottom
BottomScroll(len, height) == saturating_sub(len % U16, popup_height(height))

\* List's stateful render: with a non-empty list area it drops the selection
\* of an empty list and pulls an out-of-range selection to the last item;
\* with an empty list area it returns before touching the state.
RenderSelection(sel, len, area_empty) ==
    IF area_empty THEN sel
    ELSE IF len = 0 THEN None
    ELSE IF sel /= None /\ sel >= len THEN saturating_sub(len, 1)
    ELSE sel

\* ----------------------------------------------------------------- state
VARIABLES
    services, selected, should_quit, show_only_user_config,
    showing_logs, logs, log_scroll, stick_to_bottom,
    last_data_tick,
    current_view_services, terminal_height,
    now, pc, returned,
    calls, forced, drawn, polled, entry,
    last_scroll, last_call

vars == <<services, selected, should_quit, show_only_user_config,
          showing_logs, logs, log_scroll, stick_to_bottom, last_data_tick,
          current_view_services, terminal_height, now, pc, returned,
          calls, forced, drawn, polled, entry, last_scroll, last_call>>

app == <<services, selected, should_quit, show_only_user_config,
         showing_logs, logs, log_scroll, stick_to_bottom, last_data_tick>>

\* cursor and filter flag when the log overlay was opened
\* and the service whose logs were fetched then
NoEntry == [selected |-> None, show_only |-> TRUE, target |-> 0]

\* when the last get_user_services call returned, and whether it was the
\* initial load; forgotten once force_next_refresh is called
NoCall == [at |-> None, initial |-> FALSE]

\* directory calls made so far in this cycle and their results
NoCalls == [list |-> "none", logs |-> "none", ctl |-> "none", target |-> 0]

\* App::new, before run() is entered
Init ==
    /\ services = <<>>
    /\ selected = 0
    /\ should_quit = FALSE
    /\ show_only_user_config = TRUE
    /\ showing_logs = FALSE
    /\ logs = <<>>
    /\ log_scroll = 0
    /\ stick_to_bottom = TRUE
    /\ now \in Instants
    /\ last_data_tick = now
    /\ current_view_services = <<>>
    /\ terminal_height \in Heights
    /\ pc = "start"
    /\ returned = "no"
    /\ calls = NoCalls
    /\ forced = FALSE
    /\ drawn = FALSE
    /\ polled = FALSE
    /\ entry = NoEntry
    /\ last_scroll = "none"
    /\ last_call = NoCall

\* the monotonic clock advances while the loop runs or blocks
Tick ==
    /\ pc /= "done"
    /\ now < MaxClock
    /\ now' = now + 1
    /\ UNCHANGED <<app, current_view_services, terminal_height, pc, returned,
                   calls, forced, drawn, polled, entry>>
    /\ UNCHANGED <<last_scroll, last_call>>

\* ? on a terminal or event call: terminal.size, terminal.draw,
\* event::poll, event::read
IoError ==
    /\ pc \in {"top", "draw", "poll"}
    /\ pc' = "done"
    /\ returned' = "IoError"
    /\ UNCHANGED <<app, current_view_services, terminal_height, now,
                   calls, forced, drawn, polled, entry>>
    /\ UNCHANGED <<last_scroll, last_call>>

\* App::refresh_services after a successful get_user_services
refresh_services(new_services) ==
    /\ services' = new_services
    /\ selected' = CorrectCursor(selected,
                     Len(get_current_view_services(new_services, show_only_user_config)))

\* run(): self.refresh_services()? before the loop
StartOk ==
    /\ pc = "start"
    /\ \E new_services \in ServiceLists : refresh_services(new_services)
    /\ calls' = [calls EXCEPT !.list = "ok"]
    /\ pc' = "top"
    /\ UNCHANGED <<should_quit, show_only_user_config, showing_logs, logs,
                   log_scroll, stick_to_bottom, last_data_tick,
                   current_view_services, terminal_height, now, returned,
                   forced, drawn, polled, entry>>
    /\ last_call' = [at |-> now, initial |-> TRUE]
    /\ UNCHANGED last_scroll

\* the initial load's error swallowed instead of propagated
InitialLoadSwallowed == "top"

\* where run() goes when the initial refresh_services fails
InitialLoadFailed == "done"

StartErr ==
    /\ pc = "start"
    /\ calls' = [calls EXCEPT !.list = "err"]
    /\ pc' = InitialLoadFailed
    /\ returned' = IF pc' = "done" THEN "InitialLoadError" ELSE returned
    /\ UNCHANGED <<app, current_view_services, terminal_height, now,
                   forced, drawn, polled, entry>>
    /\ UNCHANGED <<last_scroll, last_call>>

\* top of the loop: the view and the terminal size of this cycle
Top ==
    /\ pc = "top"
    /\ current_view_services' =
           get_current_view_services(services, show_only_user_config)
    /\ terminal_height' \in Heights
    /\ calls' = NoCalls
    /\ pc' = "data"
    /\ UNCHANGED <<app, now, returned, forced, drawn, polled, entry>>
    /\ UNCHANGED <<last_scroll, last_call>>

\* the periodic refresh not held back while the log overlay is open
DataDueInLogMode == RefreshDue(now, last_data_tick)

DataDue == ~showing_logs /\ RefreshDue(now, last_data_tick)

DataSkip ==
    /\ pc = "data"
    /\ ~DataDue
    /\ pc' = "logs"
    /\ UNCHANGED <<app, current_view_services, terminal_height, now, returned,
                   calls, forced, drawn, polled, entry>>
    /\ UNCHANGED <<last_scroll, last_call>>

\* the periodic refresh; the directory call blocks for up to a second
DataRefreshOk ==
    /\ pc = "data"
    /\ DataDue
    /\ \E new_services \in ServiceLists : refresh_services(new_services)
    /\ now' \in {now, Min(now + 1, MaxClock)}
    /\ last_data_tick' = now'
    /\ calls' = [calls EXCEPT !.list = "ok"]
    /\ forced' = FALSE
    /\ pc' = "logs"
    /\ UNCHANGED <<should_quit, show_only_user_config, showing_logs, logs,
                   log_scroll, stick_to_bottom, current_view_services,
                   terminal_height, returned, drawn, polled, entry>>
    /\ last_call' = [at |-> now', initial |-> FALSE]
    /\ UNCHANGED last_scroll

\* where run() goes when a refresh_services inside the loop fails
RefreshFailed == "done"

DataRefreshErr ==
    /\ pc = "data"
    /\ DataDue
    /\ calls' = [calls EXCEPT !.list = "err"]
    /\ forced' = FALSE
    /\ pc' = RefreshFailed
    /\ returned' = IF pc' = "done" THEN "RefreshError" ELSE returned
    /\ UNCHANGED <<app, current_view_services, terminal_height, now,
                   drawn, polled, entry>>
    /\ UNCHANGED <<last_scroll, last_call>>

\* the service whose logs are shown: current_view_services.get(index)
HasTarget == HasIndex(current_view_services, selected)
Target == current_view_services[selected + 1].name

LogSkip ==
    /\ pc = "logs"
    /\ ~(showing_logs /\ HasTarget)
    /\ pc' = "draw"
    /\ UNCHANGED <<app, current_view_services, terminal_height, now, returned,
                   calls, forced, drawn, polled, entry>>
    /\ UNCHANGED <<last_scroll, last_call>>

\* scroll recomputed on every refetch, whatever stick_to_bottom says
ScrollAfterRefetchAlways(scroll, stick, len, height) == BottomScroll(len, height)

\* log_scroll after new_logs of length len replaced the buffer
ScrollAfterRefetch(scroll, stick, len, height) ==
    IF stick THEN BottomScroll(len, height) ELSE scroll

LogRefetchOk ==
    /\ pc = "logs"
    /\ showing_logs /\ HasTarget
    /\ \E n \in 0..MaxLogLen :
          /\ logs' = LogLines(Target, n)
          /\ log_scroll' = ScrollAfterRefetch(log_scroll, stick_to_bottom, n,
                                              terminal_height)
    /\ calls' = [calls EXCEPT !.logs = "ok", !.target = Target]
    /\ pc' = "draw"
    /\ UNCHANGED <<services, selected, should_quit, show_only_user_config,
                   showing_logs, stick_to_bottom, last_data_tick,
                   current_view_services, terminal_height, now, returned,
                   forced, drawn, polled, entry>>
    /\ UNCHANGED <<last_scroll, last_call>>

\* a failed refetch that empties the buffer (unwrap_or_default)
LogRefetchErrClears ==
    /\ pc = "logs"
    /\ showing_logs /\ HasTarget
    /\ logs' = <<>>
    /\ calls' = [calls EXCEPT !.logs = "err", !.target = Target]
    /\ pc' = "draw"
    /\ UNCHANGED <<services, selected, should_quit, show_only_user_config,
                   showing_logs, log_scroll, stick_to_bottom, last_data_tick,
                   current_view_services, terminal_height, now, returned,
                   forced, drawn, polled, entry, last_scroll, last_call>>

LogRefetchErr ==
    /\ pc = "logs"
    /\ showing_logs /\ HasTarget
    /\ calls' = [calls EXCEPT !.logs = "err", !.target = Target]
    /\ pc' = "draw"
    /\ UNCHANGED <<app, current_view_services, terminal_height, now, returned,
                   forced, drawn, polled, entry>>
    /\ UNCHANGED <<last_scroll, last_call>>

\* terminal.draw(ui::render(..., &mut self.list_state, ...))
Draw ==
    /\ pc = "draw"
    /\ \E area_empty \in BOOLEAN :
          selected' = RenderSelection(selected, Len(current_view_services),
                                      area_empty)
    /\ drawn' = TRUE
    /\ pc' = "poll"
    /\ UNCHANGED <<services, should_quit, show_only_user_config, showing_logs,
                   logs, log_scroll, stick_to_bottom, last_data_tick,
                   current_view_services, terminal_height, now, returned,
                   calls, forced, polled, entry>>
    /\ UNCHANGED <<last_scroll, last_call>>

\* the should_quit test at the end of the iteration left out
LoopEndContinues(quit) ==
    /\ pc' = "top"
    /\ returned' = returned

\* the end of a loop iteration: return Ok(()) when should_quit is set
LoopEnd(quit) ==
    /\ pc' = IF quit THEN "done" ELSE "top"
    /\ returned' = IF quit THEN "Ok" ELSE returned

\* event::poll returned and, if it reported an event, event::read did
Polled ==
    /\ pc = "poll"
    /\ polled' = TRUE

\* poll timed out, a non-key event, or a key without a binding
NoKey ==
    /\ Polled
    /\ LoopEnd(should_quit)
    /\ UNCHANGED <<app, current_view_services, terminal_height, now,
                   calls, forced, drawn, entry>>
    /\ UNCHANGED <<last_scroll, last_call>>

\* ---- ListMode keys (showing_logs false)

\* KeyCode::Char('q')
KeyQuit ==
    /\ Polled
    /\ ~showing_logs
    /\ should_quit' = TRUE
    /\ LoopEnd(should_quit')
    /\ UNCHANGED <<services, selected, show_only_user_config, showing_logs,
                   logs, log_scroll, stick_to_bottom, last_data_tick,
                   current_view_services, terminal_height, now,
                   calls, forced, drawn, entry>>
    /\ UNCHANGED <<last_scroll, last_call>>

\* KeyCode::Char('j')
KeyNext ==
    /\ Polled
    /\ ~showing_logs
    /\ selected' = next(selected, Len(current_view_services))
    /\ LoopEnd(should_quit)
    /\ UNCHANGED <<services, should_quit, show_only_user_config, showing_logs,
                   logs, log_scroll, stick_to_bottom, last_data_tick,
                   current_view_services, terminal_height, now,
                   calls, forced, drawn, entry>>
    /\ UNCHANGED <<last_scroll, last_call>>

\* KeyCode::Char('k')
KeyPrevious ==
    /\ Polled
    /\ ~showing_logs
    /\ selected' = previous(selected, Len(current_view_services))
    /\ LoopEnd(should_quit)
    /\ UNCHANGED <<services, should_quit, show_only_user_config, showing_logs,
                   logs, log_scroll, stick_to_bottom, last_data_tick,
                   current_view_services, terminal_height, now,
                   calls, forced, drawn, entry>>
    /\ UNCHANGED <<last_scroll, last_call>>

\* KeyCode::Tab
KeyTab ==
    /\ Polled
    /\ ~showing_logs
    /\ show_only_user_config' = ~show_only_user_config
    /\ selected' = 0
    /\ LoopEnd(should_quit)
    /\ UNCHANGED <<services, should_quit, showing_logs,
                   logs, log_scroll, stick_to_bottom, last_data_tick,
                   current_view_services, terminal_height, now,
                   calls, forced, drawn, entry>>
    /\ UNCHANGED <<last_scroll, last_call>>

\* KeyCode::Char('l') with nothing under the cursor
KeyLogsNoTarget ==
    /\ Polled
    /\ ~showing_logs
    /\ ~HasTarget
    /\ LoopEnd(should_quit)
    /\ UNCHANGED <<app, current_view_services, terminal_height, now,
                   calls, forced, drawn, entry>>
    /\ UNCHANGED <<last_scroll, last_call>>

\* KeyCode::Char('l'), get_service_logs returned Ok(logs)
KeyLogsOk ==
    /\ Polled
    /\ ~showing_logs
    /\ HasTarget
    /\ \E n \in 0..MaxLogLen : logs' = LogLines(Target, n)
    /\ showing_logs' = TRUE
    /\ log_scroll' = 0
    /\ stick_to_bottom' = TRUE
    /\ calls' = [calls EXCEPT !.logs = "ok", !.target = Target]
    /\ entry' = [selected |-> selected, show_only |-> show_only_user_config,
                 target |-> Target]
    /\ LoopEnd(should_quit)
    /\ UNCHANGED <<services, selected, should_quit, show_only_user_config,
                   last_data_tick, current_view_services, terminal_height,
                   now, forced, drawn>>
    /\ last_scroll' = "none"
    /\ UNCHANGED last_call

\* KeyCode::Char('l'), get_service_logs returned Err(_)
KeyLogsErr ==
    /\ Polled
    /\ ~showing_logs
    /\ HasTarget
    /\ calls' = [calls EXCEPT !.logs = "err", !.target = Target]
    /\ LoopEnd(should_quit)
    /\ UNCHANGED <<app, current_view_services, terminal_height, now,
                   forced, drawn, entry>>
    /\ UNCHANGED <<last_scroll, last_call>>

\* control_service(..)? in place of let _ = control_service(..)
perform_action_propagating(res) == res

\* the Result perform_action returns after control_service returned res
perform_action_result(res) == "ok"

\* KeyCode::Char('s' | 'x' | 'r') => self.perform_action(..)?
KeyControl ==
    /\ Polled
    /\ ~showing_logs
    /\ IF HasTarget
       THEN \E res \in {"ok", "err"} :
              /\ calls' = [calls EXCEPT !.ctl = res, !.target = Target]
              /\ IF perform_action_result(res) = "ok"
                 THEN /\ last_data_tick' = force_next_refresh(now)
                      /\ forced' = TRUE
                      /\ LoopEnd(should_quit)
                 ELSE /\ pc' = "done"
                      /\ returned' = "ControlError"
                      /\ UNCHANGED <<last_data_tick, forced>>
       ELSE /\ LoopEnd(should_quit)
            /\ UNCHANGED <<calls, last_data_tick, forced>>
    /\ UNCHANGED <<services, selected, should_quit, show_only_user_config,
                   showing_logs, logs, log_scroll, stick_to_bottom,
                   current_view_services, terminal_height, now, drawn, entry>>
    /\ last_call' = IF HasTarget THEN NoCall ELSE last_call
    /\ UNCHANGED last_scroll

\* ---- LogMode keys (showing_logs true)

\* the exit handler without logs.clear() and the scroll reset
KeyExitLogsKeepsBuffer ==
    /\ Polled
    /\ showing_logs
    /\ showing_logs' = FALSE
    /\ last_data_tick' = force_next_refresh(now)
    /\ forced' = TRUE
    /\ LoopEnd(should_quit)
    /\ entry' = NoEntry
    /\ UNCHANGED <<services, selected, should_quit, show_only_user_config,
                   logs, log_scroll, stick_to_bottom,
                   current_view_services, terminal_height, now,
                   calls, drawn>>
    /\ last_scroll' = "none"
    /\ last_call' = NoCall

\* KeyCode::Esc | Char('q') | Char('l')
KeyExitLogs ==
    /\ Polled
    /\ showing_logs
    /\ showing_logs' = FALSE
    /\ logs' = <<>>
    /\ log_scroll' = 0
    /\ stick_to_bottom' = TRUE
    /\ last_data_tick' = force_next_refresh(now)
    /\ forced' = TRUE
    /\ LoopEnd(should_quit)
    /\ entry' = NoEntry
    /\ UNCHANGED <<services, selected, should_quit, show_only_user_config,
                   current_view_services, terminal_height, now,
                   calls, drawn>>
    /\ last_scroll' = "none"
    /\ last_call' = NoCall

\* scroll-down without the bound at the last line
KeyScrollDownUnclamped ==
    /\ Polled
    /\ showing_logs
    /\ stick_to_bottom' = FALSE
    /\ log_scroll' = (log_scroll + 1) % U16
    /\ LoopEnd(should_quit)
    /\ last_scroll' = "move"
    /\ UNCHANGED <<services, selected, should_quit, show_only_user_config,
                   showing_logs, logs, last_data_tick,
                   current_view_services, terminal_height, now,
                   calls, forced, drawn, entry, last_call>>

\* KeyCode::Char('j') | Down
KeyScrollDown ==
    /\ Polled
    /\ showing_logs
    /\ stick_to_bottom' = FALSE
    /\ log_scroll' = IF log_scroll < saturating_sub(Len(logs) % U16, 1)
                     THEN (log_scroll + 1) % U16 ELSE log_scroll
    /\ LoopEnd(should_quit)
    /\ UNCHANGED <<services, selected, should_quit, show_only_user_config,
                   showing_logs, logs, last_data_tick,
                   current_view_services, terminal_height, now,
                   calls, forced, drawn, entry>>
    /\ last_scroll' = "move"
    /\ UNCHANGED last_call

\* KeyCode::Char('k') | Up
KeyScrollUp ==
    /\ Polled
    /\ showing_logs
    /\ stick_to_bottom' = FALSE
    /\ log_scroll' = IF log_scroll > 0 THEN log_scroll - 1 ELSE log_scroll
    /\ LoopEnd(should_quit)
    /\ UNCHANGED <<services, selected, should_quit, show_only_user_config,
                   showing_logs, logs, last_data_tick,
                   current_view_services, terminal_height, now,
                   calls, forced, drawn, entry>>
    /\ last_scroll' = "move"
    /\ UNCHANGED last_call

\* KeyCode::Char('G') | End
KeyJumpToEnd ==
    /\ Polled
    /\ showing_logs
    /\ stick_to_bottom' = TRUE
    /\ LoopEnd(should_quit)
    /\ UNCHANGED <<services, selected, should_quit, show_only_user_config,
                   showing_logs, logs, log_scroll, last_data_tick,
                   current_view_services, terminal_height, now,
                   calls, forced, drawn, entry>>
    /\ last_scroll' = "end"
    /\ UNCHANGED last_call

Next ==
    \/ Tick
    \/ IoError
    \/ StartOk
    \/ StartErr
    \/ Top
    \/ DataSkip
    \/ DataRefreshOk
    \/ DataRefreshErr
    \/ LogSkip
    \/ LogRefetchOk
    \/ LogRefetchErr
    \/ Draw
    \/ NoKey
    \/ KeyQuit
    \/ KeyNext
    \/ KeyPrevious
    \/ KeyTab
    \/ KeyLogsNoTarget
    \/ KeyLogsOk
    \/ KeyLogsErr
    \/ KeyControl
    \/ KeyExitLogs
    \/ KeyScrollDown
    \/ KeyScrollUp
    \/ KeyJumpToEnd

TypeOK ==
    /\ services \in ServiceLists
    /\ selected \in {None} \cup (0..MaxServices)
    /\ log_scroll \in 0..MaxLogLen
    /\ now \in Instants /\ last_data_tick \in Instants
    /\ pc \in {"start", "top", "data", "logs", "draw", "poll", "done"}

Spec == Init /\ [][Next]_vars

\* ======================================================================
\* Properties
\* ======================================================================

Max0(n) == IF n > 0 THEN n ELSE 0

\* rows of log text the popup shows on a terminal of the given height
ViewportRows(height) == (height * 80) \div 100 - 2

\* C1: whenever the display model is about to be rendered, the cursor is
\* absent exactly when the visible list is empty, and otherwise it is an
\* index into the visible list.
C1_CursorMatchesViewAtRender ==
    pc = "draw" =>
        /\ (selected = None) <=> (current_view_services = <<>>)
        /\ selected /= None =>
              selected >= 0 /\ selected < Len(current_view_services)

\* C2: after the initial load succeeded, a failing list_services call never
\* makes run() return.
C2_RefreshFailureNotFatal ==
    ~(pc = "done" /\ returned = "RefreshError")

\* C3: when the first list_services call fails, run() returns that error at
\* once, and nothing has been rendered and no input has been read.
C3_InitialLoadErrorFatal ==
    /\ [](returned = "InitialLoadError" => pc = "done" /\ ~drawn /\ ~polled)
    /\ [][(pc = "start" /\ calls'.list = "err") =>
             (pc' = "done" /\ returned' = "InitialLoadError")]_vars

C3_Witness ==
    pc = "done" /\ returned = "InitialLoadError" /\ calls.list = "err"

\* C4: a start/stop/restart key whose control call fails does not end the
\* session, changes neither mode, service list, cursor, filter flag nor log
\* state, and rewinds last_data_tick exactly as force_next_refresh does.
C4_ControlFailureIgnored ==
    [][(pc = "poll" /\ calls'.ctl = "err") =>
          /\ pc' = "top" /\ returned' = "no"
          /\ UNCHANGED <<showing_logs, services, selected,
                         show_only_user_config, logs, log_scroll,
                         stick_to_bottom>>
          /\ last_data_tick' = force_next_refresh(now)
          /\ forced']_vars

C4_Witness ==
    pc = "top" /\ calls.ctl = "err" /\ forced /\ returned = "no"

\* C5: once force_next_refresh has been called, the next ListMode cycle
\* performs a list refresh: no ListMode cycle gets past the data step with
\* the forced refresh still outstanding.
C5_ForcedRefreshRuns ==
    (pc = "logs" /\ ~showing_logs) => ~forced

\* C6: in a cycle whose list refresh succeeded, the visible list handed to
\* the renderer is the view of the freshly fetched list.
C6_RenderShowsFreshList ==
    (pc = "draw" /\ calls.list = "ok") =>
        current_view_services =
            get_current_view_services(services, show_only_user_config)

\* C7: leaving the log overlay restores the cursor and filter flag of the
\* moment it was opened and leaves the data-cadence comparison true.
C7_LogRoundTrip ==
    [][(pc = "poll" /\ showing_logs /\ ~showing_logs') =>
          /\ selected' = entry.selected
          /\ show_only_user_config' = entry.show_only
          /\ RefreshDue(now', last_data_tick')]_vars

\* C8: the toggle-filter key flips the flag and leaves the cursor at 0 when
\* the view under the new flag is non-empty and absent when it is empty.
C8_ToggleResetsCursor ==
    [][(pc = "poll" /\ show_only_user_config' /= show_only_user_config) =>
          selected' =
             IF get_current_view_services(services, show_only_user_config') = <<>>
             THEN None ELSE 0]_vars

C10_PausedScrollInRange ==
    (pc = "draw" /\ showing_logs /\ ~stick_to_bottom /\ calls.logs = "ok") =>
        log_scroll <= Max0(Len(logs) - 1)

\* C11: a refetch made while stick_to_bottom is clear, whose new buffer is
\* longer than the scroll offset, changes neither scroll nor the flag.
C11_PausedRefetchKeepsScroll ==
    [][(pc = "logs" /\ showing_logs /\ ~stick_to_bottom
        /\ calls'.logs = "ok" /\ Len(logs') > log_scroll) =>
          UNCHANGED <<log_scroll, stick_to_bottom>>]_vars

\* a paused refetch after which the bottom offset would have been different
C11_Witness ==
    /\ pc = "draw" /\ showing_logs /\ ~stick_to_bottom /\ calls.logs = "ok"
    /\ Len(logs) > log_scroll
    /\ log_scroll /= Max0(Len(logs) - ViewportRows(terminal_height))

\* C12: a failed log fetch changes neither the mode nor the log state: a
\* failed refetch keeps LogMode, lines, scroll and the flag; a failed
\* enter-logs fetch keeps ListMode, the log state, the cursor and the filter.
C12_FailedLogFetchChangesNothing ==
    [][(pc \in {"logs", "poll"} /\ calls.logs = "none" /\ calls'.logs = "err") =>
          UNCHANGED <<showing_logs, logs, log_scroll, stick_to_bottom,
                      selected, show_only_user_config>>]_vars

\* a failed refetch in LogMode over a buffer that holds lines
C12_Witness ==
    pc = "draw" /\ showing_logs /\ calls.logs = "err" /\ logs /= <<>>

\* the indices of the full list the filter keeps
Kept(full, show_only) ==
    {i \in 1..Len(full) : show_only => full[i].is_user_config}

\* C13: the view is the full list's kept elements in their order: its k-th
\* element is the k-th kept element of the full list; with the flag clear it
\* is the full list.
C13_ViewIsOrderedFilter ==
    pc = "data" =>
        /\ Len(current_view_services) =
               Cardinality(Kept(services, show_only_user_config))
        /\ \A k \in 1..Len(current_view_services) :
              \E i \in Kept(services, show_only_user_config) :
                 /\ current_view_services[k] = services[i]
                 /\ Cardinality({j \in Kept(services, show_only_user_config) : j < i}) = k - 1
        /\ \A k \in 1..Len(current_view_services) :
              show_only_user_config => current_view_services[k].is_user_config
        /\ ~show_only_user_config => current_view_services = services

\* the filter drops the first service and keeps the second
C13_Witness ==
    /\ pc = "data" /\ show_only_user_config
    /\ Len(services) >= 2
    /\ ~services[1].is_user_config
    /\ current_view_services = <<services[2]>>

\* C14: on a non-empty view next and previous undo each other at every
\* index and wrap at the ends; on an empty view both leave the cursor alone.
C14_NextPreviousInverse ==
    (pc = "poll" /\ ~showing_logs) =>
        LET L == Len(current_view_services) IN
        /\ \A i \in 0..(L - 1) :
              /\ previous(next(i, L), L) = i
              /\ next(previous(i, L), L) = i
              /\ i = L - 1 => next(i, L) = 0
              /\ i = 0 => previous(i, L) = L - 1
        /\ L = 0 => next(selected, L) = selected /\ previous(selected, L) = selected

\* the cursor is on the last of several visible services
C14_Witness ==
    /\ pc = "poll" /\ ~showing_logs
    /\ Len(current_view_services) >= 2
    /\ selected = Len(current_view_services) - 1

\* C15: the correction at the end of a successful refresh leaves the cursor
\* absent when the new view is empty and otherwise inside it, whatever the
\* cursor was before: an index in range stays, an index past the end snaps
\* to the last index.
C15_ReclampAfterRefresh ==
    [][(pc \in {"start", "data"} /\ calls'.list = "ok") =>
          LET L == Len(get_current_view_services(services', show_only_user_config)) IN
          /\ L = 0 => selected' = None
          /\ L > 0 => /\ selected' \in 0..(L - 1)
                      /\ selected \in 0..(L - 1) => selected' = selected
                      /\ (selected /= None /\ selected >= L) => selected' = L - 1]_vars

\* C16: run() returns Ok only with the quit flag set; the flag is set only
\* by the quit key in ListMode, and run() returns in that very step, after
\* which nothing more happens; leaving the log overlay sets no quit flag and
\* the loop goes on.
C16_QuitOnlyInListMode ==
    /\ [](returned = "Ok" => should_quit)
    /\ [](should_quit => pc = "done" /\ returned = "Ok")
    /\ [][(should_quit' /\ ~should_quit) =>
             (pc = "poll" /\ ~showing_logs /\ UNCHANGED <<calls, drawn>>)]_vars
    /\ [][(showing_logs /\ ~showing_logs') =>
             (~should_quit' /\ pc' = "top")]_vars
    /\ [][pc /= "done"]_vars

C16_Witness ==
    pc = "done" /\ returned = "Ok" /\ should_quit /\ drawn

\* C17: every log refetch of a LogMode session asks for the service whose
\* logs were fetched when the overlay was opened.
C17_RefetchSameTarget ==
    (showing_logs /\ pc = "draw" /\ calls.logs /= "none") =>
        calls.target = entry.target

\* C18: a cycle run in LogMode makes no list_services call, attempts the
\* log fetch for the service under the cursor whatever the data cadence
\* says, and leaves service list, cursor and filter flag alone.
C18_LogCycleFetchesLogsOnly ==
    /\ []((showing_logs /\ pc \in {"data", "logs", "draw", "poll"}) =>
             calls.list = "none")
    /\ []((showing_logs /\ pc \in {"draw", "poll"}) =>
             /\ calls.logs \in {"ok", "err"}
             /\ selected \in 0..(Len(current_view_services) - 1)
             /\ calls.target = current_view_services[selected + 1].name)
    /\ [][showing_logs =>
             UNCHANGED <<services, selected, show_only_user_config>>]_vars

\* a LogMode cycle during which the data cadence has elapsed
C18_Witness ==
    /\ showing_logs /\ pc = "draw" /\ calls.logs /= "none"
    /\ now - last_data_tick >= data_tick_rate

\* C19 as stated: a ListMode cycle refreshes exactly when the data cadence
\* has elapsed since last_data_tick, and a list_services call starts at least
\* one cadence after the previous one returned, the initial load included,
\* unless force_next_refresh was called in between.
C19_ListCallsOneCadenceApart ==
    /\ [][(pc = "data" /\ ~showing_logs /\ pc' /= pc) =>
             ((calls'.list /= "none") <=>
              (now - last_data_tick >= data_tick_rate))]_vars
    /\ [][(pc = "data" /\ calls'.list /= "none" /\ last_call.at /= None) =>
             now - last_call.at >= data_tick_rate]_vars

\* C19 as amended: the same for two calls made inside the loop; the initial
\* load is not counted.
C19_LoopCallsOneCadenceApart ==
    /\ [][(pc = "data" /\ ~showing_logs /\ pc' /= pc) =>
             ((calls'.list /= "none") <=>
              (now - last_data_tick >= data_tick_rate))]_vars
    /\ [][(pc = "data" /\ calls'.list /= "none" /\ last_call.at /= None
           /\ ~last_call.initial) =>
             now - last_call.at >= data_tick_rate]_vars

\* a refresh is due whose predecessor was a refresh made inside the loop
C19_Witness ==
    /\ pc = "data" /\ ~showing_logs
    /\ last_call.at /= None /\ ~last_call.initial
    /\ now - last_data_tick >= data_tick_rate

\* C20: in LogMode stick_to_bottom is clear exactly when the last scroll
\* input since entry was scroll-up or scroll-down; the refetch never writes
\* the flag; scroll-down adds one unless scroll is at or past the last line,
\* scroll-up takes one off unless scroll is 0, and after jump-to-end scroll
\* moves only with a successful refetch or the next input.
C20_StickFollowsScrollInput ==
    /\ [](showing_logs => (~stick_to_bottom <=> last_scroll = "move"))
    /\ [][pc = "logs" => UNCHANGED stick_to_bottom]_vars
    /\ [][KeyScrollDown =>
             log_scroll' = IF log_scroll >= Len(logs) - 1
                           THEN log_scroll ELSE log_scroll + 1]_vars
    /\ [][KeyScrollUp =>
             log_scroll' = IF log_scroll = 0 THEN 0 ELSE log_scroll - 1]_vars
    /\ [][KeyJumpToEnd => UNCHANGED log_scroll]_vars
    /\ [][(showing_logs /\ last_scroll = "end" /\ pc /= "poll") =>
             (log_scroll' = log_scroll \/ calls'.logs = "ok")]_vars

\* scroll-down has moved the offset and paused auto-scroll
C20_Witness ==
    showing_logs /\ ~stick_to_bottom /\ last_scroll = "move" /\ log_scroll > 0

\* C21: whenever the session is in ListMode the log buffer is empty, scroll
\* is 0 and stick_to_bottom is set; the exit-logs input produces this state
\* together with the transition to ListMode; and no step taken in ListMode
\* other than a successful enter-logs changes the mode or any log field.
C21_ListModeLogFieldsReset ==
    /\ [](~showing_logs =>
             (logs = <<>> /\ log_scroll = 0 /\ stick_to_bottom))
    /\ [][KeyExitLogs =>
             (/\ ~showing_logs'
              /\ logs' = <<>> /\ log_scroll' = 0 /\ stick_to_bottom')]_vars
    /\ [][(~showing_logs /\ ~KeyLogsOk) =>
             UNCHANGED <<showing_logs, logs, log_scroll,
                         stick_to_bottom>>]_vars

\* exit-logs has just closed an overlay whose refetch had succeeded in the
\* same cycle
C21_Witness ==
    /\ ~showing_logs /\ calls.logs = "ok" /\ forced
    /\ entry = NoEntry /\ last_call = NoCall
====
